---- MODULE Spec2Model ----
(***************************************************************************)
(* Doctor Input Portal (streamlit_app.py): a login-gated Streamlit page    *)
(* that appends the rows of an editable grid to a dated worksheet of a     *)
(* remote spreadsheet, overwrites a dated "mapping" worksheet from a       *)
(* template grid, and lists the dated worksheets for the admin.            *)
(*                                                                         *)
(* One step of the model is one run of the script, started by one widget   *)
(* interaction (or by st.rerun()).  Text that the code formats or parses   *)
(* (worksheet titles, dates) is a sequence of one-character strings.       *)
(***************************************************************************)
EXTENDS Integers, Sequences, FiniteSets, TLC

VARIABLES
    session_state,   \* st.session_state: a dict, DOMAIN = the keys present
    entry_editor,    \* widget state of the entry data_editor: [key, df]
    mapping_editor,  \* widget state of key "mapping_editor": [present, df]
    rerun,           \* st.rerun() was called: the script is about to run again
    message,         \* st.error / st.warning / st.success of the last run
    tabs,            \* the tabs rendered by the last run
    history,         \* history_tab's output of the last run
    ops,             \* the remote calls completed by the last run, in order
    worksheets,      \* the remote spreadsheet: sequence of [title, rows]
    today,           \* datetime.now(ZoneInfo(TIMEZONE)).date()
    df_ref,          \* load_reference_sheet(), cached for the process
    conc             \* two sessions inside new_entry_tab's Submit, call by call

vars == <<session_state, entry_editor, mapping_editor, rerun, message,
          tabs, history, ops, worksheets, today, df_ref, conc>>

-----------------------------------------------------------------------------
(* Bounds of the model                                                     *)

MaxGridRows == 2     \* rows of an entry grid the user builds by hand
MaxSheetRows == 1    \* a Submit starts only while today's sheet is this short
MaxClock == 2        \* the timestamps datetime.now() returns are 1..MaxClock
MaxMapEdits == 1     \* cells of the mapping grid that differ from the template
MapRows == 2         \* rows of Specialty Mapping.xlsx
MapCols == 3         \* columns of Specialty Mapping.xlsx
MaxSheets == 3       \* worksheets listed by the history view
MaxConcRows == 1     \* rows of the grid each concurrent session submits

-----------------------------------------------------------------------------
(* CONFIG                                                                  *)

VALID_USERS ==
    [doctor |-> [password |-> "password123", role |-> "doctor"],
     admin  |-> [password |-> "doctor",      role |-> "admin"]]

COLUMNS == <<"col1", "col2", "col3", "col4">>

DEFAULT_ROWS == 10

None == "None"        \* Python's None as a session value
NaN == "<NaN>"        \* a missing cell (None / NaN), distinct from every text

\* a local variable of the code: v is computed once and named in In
Let(v, In(_)) == In(v)

-----------------------------------------------------------------------------
(* Text: strftime('%Y-%m-%d') and strptime(s, '%Y-%m-%d')                  *)

Digits == <<"0", "1", "2", "3", "4", "5", "6", "7", "8", "9">>

DigitChar(n) == Digits[n + 1]

IsDigit(ch) == \E n \in 0..9 : Digits[n + 1] = ch

DigitVal(ch) == CHOOSE n \in 0..9 : Digits[n + 1] = ch

\* strftime pads %Y to four digits and %m, %d to two
Strftime(d) ==
    << DigitChar(d.y \div 1000), DigitChar((d.y \div 100) % 10),
       DigitChar((d.y \div 10) % 10), DigitChar(d.y % 10), "-",
       DigitChar(d.m \div 10), DigitChar(d.m % 10), "-",
       DigitChar(d.d \div 10), DigitChar(d.d % 10) >>

IsLeap(y) == (y % 4 = 0 /\ y % 100 /= 0) \/ y % 400 = 0

DaysInMonth(y, m) ==
    IF m = 2 THEN (IF IsLeap(y) THEN 29 ELSE 28)
    ELSE IF m \in {4, 6, 9, 11} THEN 30 ELSE 31

\* datetime(y, m, d) raises ValueError outside these ranges
ValidDate(y, m, d) ==
    /\ y \in 1..9999
    /\ m \in 1..12
    /\ d \in 1..DaysInMonth(y, m)

ValueError == [ok |-> FALSE, y |-> 0, m |-> 0, d |-> 0]

At(s, i) == IF i \in 1..Len(s) THEN s[i] ELSE ""

\* %m is the regex 1[0-2]|0[1-9]|[1-9]: the number of characters it takes at i
\* (0: no match), first alternative first
MonthWidth(s, i) ==
    IF At(s, i) = "1" /\ At(s, i + 1) \in {"0", "1", "2"} THEN 2
    ELSE IF At(s, i) = "0" /\ IsDigit(At(s, i + 1)) /\ At(s, i + 1) /= "0" THEN 2
    ELSE IF IsDigit(At(s, i)) /\ At(s, i) /= "0" THEN 1
    ELSE 0

\* %d is the regex 3[01]|[12]\d|0[1-9]|[1-9]| [1-9]
DayWidth(s, i) ==
    IF At(s, i) = "3" /\ At(s, i + 1) \in {"0", "1"} THEN 2
    ELSE IF At(s, i) \in {"1", "2"} /\ IsDigit(At(s, i + 1)) THEN 2
    ELSE IF At(s, i) = "0" /\ IsDigit(At(s, i + 1)) /\ At(s, i + 1) /= "0" THEN 2
    ELSE IF IsDigit(At(s, i)) /\ At(s, i) /= "0" THEN 1
    ELSE IF At(s, i) = " " /\ IsDigit(At(s, i + 1)) /\ At(s, i + 1) /= "0" THEN 2
    ELSE 0

\* the value of the w characters at i (a leading blank of %d counts for nothing)
NumAt(s, i, w) ==
    IF w = 1 THEN DigitVal(s[i])
    ELSE (IF s[i] = " " THEN 0 ELSE 10 * DigitVal(s[i])) + DigitVal(s[i + 1])

\* datetime.strptime(s, "%Y-%m-%d"): \d\d\d\d - month - day, nothing left over,
\* and a date that exists
Strptime(s) ==
    IF ~(\A i \in 1..4 : IsDigit(At(s, i))) \/ At(s, 5) /= "-" THEN ValueError
    ELSE LET mw == MonthWidth(s, 6) IN
         IF mw = 0 \/ At(s, 6 + mw) /= "-" THEN ValueError
         ELSE LET dw == DayWidth(s, 7 + mw) IN
              IF dw = 0 \/ Len(s) /= 6 + mw + dw THEN ValueError
              ELSE LET y == 1000 * DigitVal(s[1]) + 100 * DigitVal(s[2])
                            + 10 * DigitVal(s[3]) + DigitVal(s[4])
                       m == NumAt(s, 6, mw)
                       d == NumAt(s, 7 + mw, dw)
                   IN  IF ValidDate(y, m, d)
                       THEN [ok |-> TRUE, y |-> y, m |-> m, d |-> d]
                       ELSE ValueError

DataPrefix == <<"d", "a", "t", "a", "_">>

MappingPrefix == <<"m", "a", "p", "p", "i", "n", "g", "_">>

StartsWith(s, p) == Len(s) >= Len(p) /\ SubSeq(s, 1, Len(p)) = p

\* f"data_{now.strftime('%Y-%m-%d')}"
DataSheetName(d) == DataPrefix \o Strftime(d)

\* f"mapping_{now.strftime('%Y-%m-%d')}"
MappingSheetName(d) == MappingPrefix \o Strftime(d)

-----------------------------------------------------------------------------
(* Grids: a DataFrame's values, a sequence of rows of cells                *)

Width == Len(COLUMNS)

IsNa(v) == v = NaN

\* df.dropna(how="all"): drop the rows in which every cell is missing
RECURSIVE dropna_all(_)
dropna_all(df) ==
    IF df = <<>> THEN <<>>
    ELSE IF \A c \in 1..Len(Head(df)) : IsNa(Head(df)[c])
         THEN dropna_all(Tail(df))
         ELSE <<Head(df)>> \o dropna_all(Tail(df))

\* df.fillna("")
fillna(df) ==
    [r \in 1..Len(df) |-> [c \in 1..Len(df[r]) |-> IF IsNa(df[r][c]) THEN "" ELSE df[r][c]]]

\* str(v): text is itself, a missing value prints as "nan"
Str(v) == IF IsNa(v) THEN "nan" ELSE v

\* df.astype(str)
astype_str(df) ==
    [r \in 1..Len(df) |-> [c \in 1..Len(df[r]) |-> Str(df[r][c])]]

\* blank_df(): DEFAULT_ROWS rows of one "" per column
blank_df == [r \in 1..DEFAULT_ROWS |-> [c \in 1..Width |-> ""]]

-----------------------------------------------------------------------------
(* The remote spreadsheet, as gspread shows it.  A script run threads a    *)
(* record R through its remote calls:                                      *)
(*   sheets  the worksheets            n       calls attempted so far      *)
(*   ops     the calls completed       fault   the call that fails (0: no) *)
(*   raised  the exception in flight   ws      the worksheet handle        *)
(*   ret     an integer result                                             *)

NoOp == <<>>

Remote(sheets, fault) ==
    [sheets |-> sheets, ops |-> NoOp, n |-> 0, fault |-> fault,
     raised |-> "", ws |-> 0, ret |-> 0]

Raised(R) == R.raised /= ""

Call(op, title, values) == [op |-> op, title |-> title, values |-> values]

\* a call that the service fails raises APIError and changes nothing
Attempt(R) == [R EXCEPT !.n = @ + 1]

Fails(R) == R.fault = R.n + 1

ApiError(R) == [Attempt(R) EXCEPT !.raised = "APIError"]

Done(R, call) == [Attempt(R) EXCEPT !.ops = Append(@, call)]

TitleIndex(sheets, title) ==
    IF \E i \in 1..Len(sheets) : sheets[i].title = title
    THEN CHOOSE i \in 1..Len(sheets) : sheets[i].title = title
    ELSE 0

\* sh.worksheet(title): the handle, or WorksheetNotFound
sh_worksheet(R, title) ==
    IF Fails(R) THEN ApiError(R)
    ELSE LET i == TitleIndex(R.sheets, title) IN
         IF i = 0
         THEN [Done(R, Call("worksheet", title, <<>>)) EXCEPT !.raised = "WorksheetNotFound"]
         ELSE [Done(R, Call("worksheet", title, <<>>)) EXCEPT !.ws = i]

\* sh.add_worksheet(title, rows, cols): the service refuses a title in use
sh_add_worksheet(R, title) ==
    IF Fails(R) \/ TitleIndex(R.sheets, title) /= 0 THEN ApiError(R)
    ELSE [Done(R, Call("add_worksheet", title, <<>>)) EXCEPT
              !.sheets = Append(@, [title |-> title, rows |-> <<>>]),
              !.ws = Len(R.sheets) + 1]

\* ws.append_row(values): value_input_option is RAW, the values are stored
\* as they are
ws_append_row(R, ws, values) ==
    IF Fails(R) THEN ApiError(R)
    ELSE [Done(R, Call("append_row", R.sheets[ws].title, <<values>>)) EXCEPT
              !.sheets[ws].rows = Append(@, values)]

\* what the service keeps of a value entered as a user types it: a text that
\* reads as a number becomes that number (here: loses its leading zero)
user_entered(v) == IF v = "01" THEN "1" ELSE v

\* ws.append_row(r, value_input_option="USER_ENTERED")
ws_append_row_user_entered(R, ws, values) ==
    IF Fails(R) THEN ApiError(R)
    ELSE [Done(R, Call("append_row", R.sheets[ws].title, <<values>>)) EXCEPT
              !.sheets[ws].rows =
                  Append(@, [c \in 1..Len(values) |-> user_entered(values[c])])]

\* ws.clear()
ws_clear(R, ws) ==
    IF Fails(R) THEN ApiError(R)
    ELSE [Done(R, Call("clear", R.sheets[ws].title, <<>>)) EXCEPT
              !.sheets[ws].rows = <<>>]

\* ws.update(values, range_name="A1") on a cleared sheet
ws_update(R, ws, values) ==
    IF Fails(R) THEN ApiError(R)
    ELSE [Done(R, Call("update", R.sheets[ws].title, values)) EXCEPT
              !.sheets[ws].rows =
                  [r \in 1..(IF Len(@) > Len(values) THEN Len(@) ELSE Len(values)) |->
                      IF r <= Len(values) THEN values[r] ELSE @[r]]]

\* sh.worksheets() and ws.get_all_values(): reads
sh_worksheets(R) ==
    IF Fails(R) THEN ApiError(R) ELSE Done(R, Call("worksheets", <<>>, <<>>))

ws_get_all_values(R, ws) ==
    IF Fails(R) THEN ApiError(R)
    ELSE Done(R, Call("get_all_values", R.sheets[ws].title, <<>>))

WriteOps == {"add_worksheet", "append_row", "clear", "update"}

-----------------------------------------------------------------------------
(* GOOGLE SHEETS HELPERS                                                   *)

\* get_today_sheet writing the header row on every call, found or created
get_today_sheet_header_always(R, now) ==
    Let(sh_worksheet(R, DataSheetName(now)), LAMBDA r1 :
    Let(IF r1.raised = "WorksheetNotFound"
        THEN sh_add_worksheet([r1 EXCEPT !.raised = ""], DataSheetName(now))
        ELSE r1, LAMBDA r2 :
        IF Raised(r2) THEN r2 ELSE ws_append_row(r2, r2.ws, COLUMNS)))

\* get_today_sheet(): today's data_ worksheet, created with its header row
\* when sh.worksheet() raises WorksheetNotFound
get_today_sheet(R, now) ==
    Let(sh_worksheet(R, DataSheetName(now)), LAMBDA r1 :
        IF r1.raised = "WorksheetNotFound"
        THEN Let(sh_add_worksheet([r1 EXCEPT !.raised = ""], DataSheetName(now)),
                 LAMBDA r2 :
                     IF Raised(r2) THEN r2 ELSE ws_append_row(r2, r2.ws, COLUMNS))
        ELSE r1)

\* get_mapping_sheet_for_today(): today's mapping_ worksheet, created empty
get_mapping_sheet_for_today(R, now) ==
    Let(sh_worksheet(R, MappingSheetName(now)), LAMBDA r1 :
        IF r1.raised = "WorksheetNotFound"
        THEN sh_add_worksheet([r1 EXCEPT !.raised = ""], MappingSheetName(now))
        ELSE r1)

\* for r in rows: ws.append_row(r); the first failing call ends the loop
RECURSIVE append_each(_, _, _)
append_each(R, ws, rows) ==
    IF rows = <<>> \/ Raised(R) THEN R
    ELSE append_each(ws_append_row_user_entered(R, ws, Head(rows)), ws, Tail(rows))

\* append_rows(ws, df): R.ret is the returned count
append_rows(R, ws, df) ==
    Let(dropna_all(df), LAMBDA df_clean :
        IF df_clean = <<>> THEN [R EXCEPT !.ret = 0]
        ELSE Let(append_each(R, ws, astype_str(fillna(df_clean))), LAMBDA r2 :
                 IF Raised(r2) THEN r2 ELSE [r2 EXCEPT !.ret = Len(df_clean)]))

-----------------------------------------------------------------------------
(* get_date_sheets()                                                       *)

\* datetime ordering
DateLess(a, b) ==
    \/ a.y < b.y
    \/ a.y = b.y /\ a.m < b.m
    \/ a.y = b.y /\ a.m = b.m /\ a.d < b.d

\* the (d, date_str, ws) triples of the data_ worksheets whose suffix parses
RECURSIVE date_triples(_, _)
date_triples(sheets, i) ==
    IF i > Len(sheets) THEN <<>>
    ELSE IF StartsWith(sheets[i].title, DataPrefix)
         THEN Let(SubSeq(sheets[i].title, Len(DataPrefix) + 1, Len(sheets[i].title)),
                  LAMBDA date_str :
              Let(Strptime(date_str), LAMBDA d :
                  IF d.ok
                  THEN <<[d |-> d, date_str |-> date_str, ws |-> i]>>
                           \o date_triples(sheets, i + 1)
                  ELSE date_triples(sheets, i + 1)))
         ELSE date_triples(sheets, i + 1)

\* list.sort(key=..., reverse=True) is stable: an element goes after every
\* element whose key is not smaller
RECURSIVE insert_desc(_, _)
insert_desc(sorted, x) ==
    IF sorted = <<>> THEN <<x>>
    ELSE IF DateLess(Head(sorted).d, x.d) THEN <<x>> \o sorted
         ELSE <<Head(sorted)>> \o insert_desc(Tail(sorted), x)

RECURSIVE sort_desc(_, _)
sort_desc(sorted, rest) ==
    IF rest = <<>> THEN sorted
    ELSE sort_desc(insert_desc(sorted, Head(rest)), Tail(rest))

\* get_date_sheets without the sort: the pairs in listing order
get_date_sheets_unsorted(sheets) ==
    Let(date_triples(sheets, 1), LAMBDA s :
        [k \in 1..Len(s) |-> [date_str |-> s[k].date_str, ws |-> s[k].ws]])

\* the list of (date_str, ws), newest date first
get_date_sheets(sheets) ==
    Let(sort_desc(<<>>, date_triples(sheets, 1)), LAMBDA s :
        [k \in 1..Len(s) |-> [date_str |-> s[k].date_str, ws |-> s[k].ws]])

-----------------------------------------------------------------------------
(* EXCEL / SPECIALTY MAPPING HELPERS                                       *)

\* load_reference_sheet() returns None for a missing or empty file
NoRef == [columns |-> <<>>, values |-> <<>>]

Letters == <<"A", "B", "C", "D", "E", "F", "G", "H", "I", "J", "K", "L">>

\* a reference sheet of the given shape, every cell filled with text
RefSheet(nrows, ncols) ==
    [columns |-> [c \in 1..ncols |-> Letters[((c - 1) % Len(Letters)) + 1]],
     values  |-> [r \in 1..nrows |-> [c \in 1..ncols |->
                     Letters[(((r - 1) * ncols + c + 2) % Len(Letters)) + 1]]]]

NumRows(df) == Len(df.values)

NumCols(df) == Len(df.columns)

\* build_mapping_template(df_ref): rows >= 1 of columns >= 2 are blanked
build_mapping_template(ref) ==
    IF NumRows(ref) > 1 /\ NumCols(ref) > 2
    THEN [r \in 1..NumRows(ref) |-> [c \in 1..NumCols(ref) |->
             IF r >= 2 /\ c >= 3 THEN "" ELSE ref.values[r][c]]]
    ELSE ref.values

\* full_df.iloc[0, :] = df_ref.iloc[0, :]
restore_first_row(df, ref) ==
    [r \in 1..Len(df) |-> [c \in 1..Len(df[r]) |->
        IF r = 1 THEN ref.values[r][c] ELSE df[r][c]]]

\* restore_first_cols with the slice 0:1, the first column only
restore_first_col_only(df, ref) ==
    [r \in 1..Len(df) |-> [c \in 1..Len(df[r]) |->
        IF c <= 1 THEN ref.values[r][c] ELSE df[r][c]]]

\* full_df.iloc[:, 0:2] = df_ref.iloc[:, 0:2]
restore_first_cols(df, ref) ==
    [r \in 1..Len(df) |-> [c \in 1..Len(df[r]) |->
        IF c <= 2 THEN ref.values[r][c] ELSE df[r][c]]]

\* "" if v is None or str(v) == "nan" else str(v)
clean_cell(v) == IF IsNa(v) \/ Str(v) = "nan" THEN "" ELSE Str(v)

clean_values(df) ==
    [r \in 1..Len(df) |-> [c \in 1..Len(df[r]) |-> clean_cell(df[r][c])]]

\* the rows mapping_editor_section writes: [header] + clean_values
mapping_payload(edited, ref) ==
    LET full_df == restore_first_cols(
                       restore_first_row(astype_str(fillna(edited)), ref), ref)
        header  == [c \in 1..NumCols(ref) |-> clean_cell(ref.columns[c])]
    IN  <<header>> \o clean_values(full_df)

-----------------------------------------------------------------------------
(* A script run.  S carries what the run reads and writes:                 *)
(*   ss session_state, ee entry editor, me mapping editor, R the remote    *)
(*   calls, msgs the messages shown, tabs, hist, rerun (st.rerun() was     *)
(*   called), stop (the run ended: st.rerun() or an uncaught exception),   *)
(*   now_ts (what datetime.now().timestamp() returns in this run).         *)

Msg(kind, about, n) == [kind |-> kind, about |-> about, n |-> n]

NoEditor == [key |-> <<>>, df |-> <<>>]

NoMapping == [present |-> FALSE, df |-> <<>>]

NoHistory == [shown |-> FALSE, date_sheets |-> <<>>, selected |-> <<>>, rows |-> <<>>]

\* date_options without "None": [d for (d, _) in date_sheets]
Options(date_sheets) == [k \in 1..Len(date_sheets) |-> date_sheets[k].date_str]

Event(kind) == [kind |-> kind]

\* st.session_state.clear()
EmptyDict == [k \in {} |-> None]

Say(S, m) == [S EXCEPT !.msgs = @ \cup {m}]

\* st.session_state.get(key, default)
Get(ss, key, default) == IF key \in DOMAIN ss THEN ss[key] ELSE default

\* st.session_state[key] = value
Set(ss, key, value) ==
    [k \in DOMAIN ss \cup {key} |-> IF k = key THEN value ELSE ss[k]]

\* an exception that reaches `except Exception as e: st.error(...)`
Caught(S, about) ==
    [Say(S, Msg("error", about, 0)) EXCEPT !.R.raised = ""]

\* login_page accepting any password of a known username
login_page_known_user(S, ev) ==
    LET S1 == [S EXCEPT !.ee = NoEditor, !.me = NoMapping, !.tabs = {},
                        !.hist = NoHistory, !.stop = TRUE]
    IN  IF ev.kind /= "login" THEN S1
        ELSE IF ev.username \in DOMAIN VALID_USERS
             THEN [S1 EXCEPT
                      !.ss = Set(Set(S.ss, "logged_in", TRUE),
                                 "user_role", VALID_USERS[ev.username].role),
                      !.rerun = TRUE]
             ELSE Say(S1, Msg("error", "login", 0))

\* login_page(): the Login button with the two text inputs
login_page(S, ev) ==
    LET S1 == [S EXCEPT !.ee = NoEditor, !.me = NoMapping, !.tabs = {},
                        !.hist = NoHistory, !.stop = TRUE]
    IN  IF ev.kind /= "login" THEN S1
        ELSE IF /\ ev.username \in DOMAIN VALID_USERS
                /\ VALID_USERS[ev.username].password = ev.password
             THEN [S1 EXCEPT
                      !.ss = Set(Set(S.ss, "logged_in", TRUE),
                                 "user_role", VALID_USERS[ev.username].role),
                      !.rerun = TRUE]
             ELSE Say(S1, Msg("error", "login", 0))

\* the Submit button of mapping_editor_section
mapping_submit(S, ref, now) ==
    Let(get_mapping_sheet_for_today(S.R, now), LAMBDA r1 :
    Let(IF Raised(r1) THEN r1 ELSE ws_clear(r1, r1.ws), LAMBDA r2 :
    Let(IF Raised(r2) THEN r2
        ELSE ws_update(r2, r2.ws, mapping_payload(S.me.df, ref)), LAMBDA r3 :
        IF Raised(r3) THEN Caught([S EXCEPT !.R = r3], "mapping")
        ELSE [Say([S EXCEPT !.R = r3], Msg("success", "mapping", 0)) EXCEPT
                 !.ss = Set(S.ss, "mapping_clear_after_submit", TRUE),
                 !.rerun = TRUE, !.stop = TRUE])))

\* mapping_editor_section(role)
mapping_editor_section(S, ev, ref, now) ==
    IF ref = NoRef THEN Say(S, Msg("info", "reference", 0))
    ELSE IF NumCols(ref) < 3 THEN Say(S, Msg("error", "columns", 0))
    ELSE Let(IF Get(S.ss, "mapping_clear_after_submit", FALSE)
             THEN [S EXCEPT !.me = NoMapping,
                            !.ss = Set(S.ss, "mapping_clear_after_submit", FALSE)]
             ELSE S, LAMBDA S1 :
         Let(IF S1.me.present THEN S1
             ELSE [S1 EXCEPT !.me = [present |-> TRUE,
                                     df |-> build_mapping_template(ref)]], LAMBDA S2 :
             IF ev.kind = "map_submit" THEN mapping_submit(S2, ref, now) ELSE S2))

\* reset_key with the key of a fresh session instead of a timestamped one
reset_key_fixed(S) ==
    [S EXCEPT !.ss = Set(S.ss, "editor_key", <<"editor_1">>),
              !.rerun = TRUE, !.stop = TRUE]

\* f"editor_reset_{datetime.now().timestamp()}"; st.rerun()
reset_key(S) ==
    [S EXCEPT !.ss = Set(S.ss, "editor_key", <<"editor_reset_", S.now_ts>>),
              !.rerun = TRUE, !.stop = TRUE]

\* entry_submit with the key reset after the try block, fault or not
entry_submit_reset_after(S, now) ==
    Let(get_today_sheet(S.R, now), LAMBDA r1 :
    Let(IF Raised(r1) THEN r1 ELSE append_rows(r1, r1.ws, S.ee.df), LAMBDA r2 :
        IF Raised(r2) THEN reset_key(Caught([S EXCEPT !.R = r2], "entry"))
        ELSE IF r2.ret = 0 THEN Say([S EXCEPT !.R = r2], Msg("warning", "entry", 0))
        ELSE reset_key(Say([S EXCEPT !.R = r2], Msg("success", "entry", r2.ret)))))

\* the Submit button of new_entry_tab
entry_submit(S, now) ==
    Let(get_today_sheet(S.R, now), LAMBDA r1 :
    Let(IF Raised(r1) THEN r1 ELSE append_rows(r1, r1.ws, S.ee.df), LAMBDA r2 :
        IF Raised(r2) THEN Caught([S EXCEPT !.R = r2], "entry")
        ELSE IF r2.ret = 0 THEN Say([S EXCEPT !.R = r2], Msg("warning", "entry", 0))
        ELSE reset_key(Say([S EXCEPT !.R = r2], Msg("success", "entry", r2.ret)))))

\* new_entry_tab()
new_entry_tab(S, ev, now) ==
    Let(IF "editor_key" \in DOMAIN S.ss THEN S
        ELSE [S EXCEPT !.ss = Set(S.ss, "editor_key", <<"editor_1">>)], LAMBDA S1 :
    Let(IF S1.ee.key = S1.ss["editor_key"] THEN S1
        ELSE [S1 EXCEPT !.ee = [key |-> S1.ss["editor_key"], df |-> blank_df]],
        LAMBDA S2 :
        IF ev.kind = "clear" THEN reset_key(S2)
        ELSE IF ev.kind = "submit" THEN entry_submit(S2, now)
        ELSE S2))

\* history_tab(): nothing here catches a remote fault
history_tab(S, ev) ==
    Let(sh_worksheets(S.R), LAMBDA r1 :
    IF Raised(r1)
    THEN [Say(S, Msg("exception", "history", 0)) EXCEPT
             !.R = r1, !.hist = NoHistory, !.stop = TRUE]
    ELSE
    Let(get_date_sheets(r1.sheets), LAMBDA date_sheets :
    LET options == Options(date_sheets)
        \* the selectbox keeps its value while its options stay the same
        kept == IF S.hist.shown /\ Options(S.hist.date_sheets) = options
                THEN S.hist.selected ELSE <<>>
        selected == IF ev.kind = "select" /\ ev.choice \in 1..Len(options)
                    THEN options[ev.choice] ELSE kept
        S1 == [S EXCEPT !.R = r1,
                        !.hist = [shown |-> TRUE, date_sheets |-> date_sheets,
                                  selected |-> selected, rows |-> <<>>]]
    IN  IF date_sheets = <<>> THEN Say(S1, Msg("write", "no previous data", 0))
        ELSE IF selected = <<>> THEN Say(S1, Msg("info", "select a date", 0))
        ELSE LET k == CHOOSE k \in 1..Len(date_sheets) :
                          /\ date_sheets[k].date_str = selected
                          /\ \A j \in 1..(k - 1) : date_sheets[j].date_str /= selected
             IN  Let(ws_get_all_values(r1, date_sheets[k].ws), LAMBDA r2 :
                 IF Raised(r2)
                 THEN [Say(S1, Msg("exception", "history", 0)) EXCEPT
                          !.R = r2, !.stop = TRUE]
                 ELSE LET rows == r2.sheets[date_sheets[k].ws].rows IN
                      IF Len(rows) <= 1
                      THEN [Say(S1, Msg("write", "no rows", 0)) EXCEPT !.R = r2]
                      ELSE [S1 EXCEPT !.R = r2, !.hist.rows = rows])))

\* main_logged_in with both tabs for every role
main_logged_in_two_tabs(S, ev, ref, now) ==
    IF ev.kind = "logout"
    THEN [S EXCEPT !.ss = EmptyDict, !.ee = NoEditor, !.me = NoMapping,
                   !.hist = NoHistory, !.rerun = TRUE, !.stop = TRUE]
    ELSE Let(mapping_editor_section(S, ev, ref, now), LAMBDA S1 :
         Let(IF S1.stop THEN S1
             ELSE new_entry_tab(
                      [S1 EXCEPT !.tabs = {"New Entry", "Previous Entries"}],
                      ev, now), LAMBDA S2 :
             IF S2.stop THEN S2 ELSE history_tab(S2, ev)))

\* main(), after the login check
main_logged_in(S, ev, ref, now) ==
    LET role == Get(S.ss, "user_role", "doctor") IN
    IF ev.kind = "logout"
    THEN [S EXCEPT !.ss = EmptyDict, !.ee = NoEditor, !.me = NoMapping,
                   !.hist = NoHistory, !.rerun = TRUE, !.stop = TRUE]
    ELSE Let(mapping_editor_section(S, ev, ref, now), LAMBDA S1 :
         Let(IF S1.stop THEN S1
             ELSE new_entry_tab(
                      [S1 EXCEPT !.tabs = IF role = "admin"
                                          THEN {"New Entry", "Previous Entries"}
                                          ELSE {"New Entry"}],
                      ev, now), LAMBDA S2 :
             IF S2.stop \/ role /= "admin" THEN S2 ELSE history_tab(S2, ev)))

\* main()
main(S, ev, ref, now) ==
    LET S1 == IF "logged_in" \in DOMAIN S.ss THEN S
              ELSE [S EXCEPT !.ss = Set(Set(S.ss, "logged_in", FALSE),
                                        "user_role", None)]
    IN  IF ~S1.ss["logged_in"] THEN login_page(S1, ev)
        ELSE main_logged_in(S1, ev, ref, now)

-----------------------------------------------------------------------------
(* Inputs                                                                  *)

Date(y, m, d) == [ok |-> TRUE, y |-> y, m |-> m, d |-> d]

Days == {Date(2024, 2, 29), Date(2025, 11, 3)}

Today0 == Date(2025, 11, 3)

Usernames == {"doctor", "admin", "engineer"}

Passwords == {"password123", "doctor", "letmein"}

\* rows of an entry grid: an added row nobody touched, a row of the default
\* grid, a row with text, a missing cell, a number text and an empty cell
RowAdded == [c \in 1..Width |-> NaN]

RowDefault == [c \in 1..Width |-> ""]

RowText == <<"a", NaN, "01", "">>

RowChoices == {RowAdded, RowDefault, RowText}

SeqsUpTo(S, n) == UNION {[1..k -> S] : k \in 0..n}

EntryGrids == {blank_df} \cup SeqsUpTo(RowChoices, MaxGridRows)

\* a few grids beside the default one: one added row, one row with text
SmallGrids == {<<RowAdded>>, <<RowText>>}

\* what a user can leave in a cell of the mapping grid
MapCellValues == {NaN, "x", "nan"}

\* the calls of a Submit that the service may fail (0: none): lookup,
\* creation, header, and a row of the grid or the one after its last
FaultPoints == 0..(MaxGridRows + 3)

\* the first calls only: lookup, creation or clear, header or update or a row
EarlyFaults == 0..3

NumEdits(df, template) ==
    Cardinality({rc \in (1..Len(df)) \X (1..Len(df[1])) :
                    df[rc[1]][rc[2]] /= template[rc[1]][rc[2]]})

-----------------------------------------------------------------------------
(* The state after the first run of the script: the login page             *)

NoConc == [s \in {} |-> None]

InitSession ==
    /\ session_state = [logged_in |-> FALSE, user_role |-> None]
    /\ entry_editor = NoEditor
    /\ mapping_editor = NoMapping
    /\ rerun = FALSE
    /\ message = {}
    /\ tabs = {}
    /\ history = NoHistory
    /\ ops = NoOp

Init ==
    /\ InitSession
    /\ worksheets = <<>>
    /\ today = Today0
    /\ df_ref = RefSheet(MapRows, MapCols)
    /\ conc = NoConc

\* datetime.now().timestamp() of the run: later than the one editor_key holds
Timestamps == 1..MaxClock

LastStamp(ss) ==
    IF "editor_key" \in DOMAIN ss /\ Len(ss["editor_key"]) = 2
    THEN ss["editor_key"][2] ELSE 0

\* one run of the script on event ev at time ts, with the service failing
\* call `fault`
Run(ev, ee, me, fault, ts) ==
    LET S0 == [ss |-> session_state, ee |-> ee, me |-> me,
               R |-> Remote(worksheets, fault), msgs |-> {}, tabs |-> {},
               hist |-> history, rerun |-> FALSE, stop |-> FALSE, now_ts |-> ts]
    IN  \E S \in {main(S0, ev, df_ref, today)} :
        /\ session_state' = S.ss
        /\ entry_editor' = S.ee
        /\ mapping_editor' = S.me
        /\ rerun' = S.rerun
        /\ message' = S.msgs
        /\ tabs' = S.tabs
        /\ history' = S.hist
        /\ ops' = S.R.ops
        /\ worksheets' = S.R.sheets
        /\ UNCHANGED <<today, df_ref, conc>>

LoggedIn == Get(session_state, "logged_in", FALSE)

\* the page is drawn and waits for the user
Idle == ~rerun

\* today's data_ sheet is short enough for another Submit
SheetHasRoom ==
    LET i == TitleIndex(worksheets, DataSheetName(today)) IN
    IF i = 0 THEN TRUE ELSE Len(worksheets[i].rows) <= MaxSheetRows

Login(username, password) ==
    /\ Idle /\ ~LoggedIn
    /\ Run([kind |-> "login", username |-> username, password |-> password],
           entry_editor, mapping_editor, 0, 0)

Logout ==
    /\ Idle /\ LoggedIn
    /\ Run(Event("logout"), entry_editor, mapping_editor, 0, 0)

\* the user leaves the entry grid as g (cell edits, added and deleted rows)
EditEntry(g, fault) ==
    /\ Idle /\ LoggedIn /\ entry_editor /= NoEditor
    /\ g /= entry_editor.df
    /\ Run(Event("edit"), [entry_editor EXCEPT !.df = g], mapping_editor, fault, 0)

ClearTable(ts) ==
    /\ Idle /\ LoggedIn /\ entry_editor /= NoEditor
    /\ ts > LastStamp(session_state)
    /\ Run(Event("clear"), entry_editor, mapping_editor, 0, ts)

SubmitEntry(fault, ts) ==
    /\ Idle /\ LoggedIn /\ entry_editor /= NoEditor
    /\ ts > LastStamp(session_state)
    /\ SheetHasRoom
    /\ Run(Event("submit"), entry_editor, mapping_editor, fault, ts)

\* the widget state holds v in cell (r, c) of the mapping grid (the page
\* itself disables columns 0-1: see Next)
EditMapping(r, c, v, fault) ==
    /\ Idle /\ LoggedIn /\ mapping_editor.present
    /\ r \in 1..NumRows(df_ref) /\ c \in 1..NumCols(df_ref)
    /\ mapping_editor.df[r][c] /= v
    /\ LET df == [mapping_editor.df EXCEPT ![r][c] = v] IN
       /\ NumEdits(df, build_mapping_template(df_ref)) <= MaxMapEdits
       /\ Run(Event("map_edit"), entry_editor, [mapping_editor EXCEPT !.df = df], fault, 0)

SubmitMapping(fault) ==
    /\ Idle /\ LoggedIn /\ mapping_editor.present
    /\ Run(Event("map_submit"), entry_editor, mapping_editor, fault, 0)

\* the admin picks a date in the selectbox
SelectHistory(choice, fault) ==
    /\ Idle /\ LoggedIn /\ history.shown
    /\ choice \in 1..Len(history.date_sheets)
    /\ Run([kind |-> "select", choice |-> choice], entry_editor, mapping_editor, fault, 0)

\* st.rerun(): the script runs again with no widget pressed
Rerun(fault) ==
    /\ rerun
    /\ Run(Event("rerun"), entry_editor, mapping_editor, fault, 0)

\* The whole page, one session.  The mapping grid is edited in cell (2, 3)
\* only, which the page leaves editable.
Next ==
    \/ \E u \in Usernames, p \in Passwords : Login(u, p)
    \/ Logout
    \/ \E g \in SmallGrids : EditEntry(g, 0)
    \/ \E ts \in Timestamps : ClearTable(ts)
    \/ \E f \in EarlyFaults, ts \in Timestamps : SubmitEntry(f, ts)
    \/ \E v \in {"x"} : EditMapping(2, 3, v, 0)
    \/ \E f \in EarlyFaults : SubmitMapping(f)
    \/ \E f \in 0..2 : SelectHistory(1, f)
    \/ \E f \in 0..1 : Rerun(f)

Spec == Init /\ [][Next]_vars

-----------------------------------------------------------------------------
(* The entry grid alone: a doctor with every grid of EntryGrids and a      *)
(* fault at any call of the Submit                                         *)

InitEntry ==
    /\ InitSession
    /\ worksheets = <<>>
    /\ today = Today0
    /\ df_ref = NoRef
    /\ conc = NoConc

NextEntry ==
    \/ Login("doctor", VALID_USERS["doctor"].password)
    \/ Rerun(0)
    \/ \E g \in EntryGrids : EditEntry(g, 0)
    \/ \E ts \in Timestamps : ClearTable(ts)
    \/ \E f \in FaultPoints, ts \in Timestamps : SubmitEntry(f, ts)

SpecEntry == InitEntry /\ [][NextEntry]_vars

-----------------------------------------------------------------------------
(* The mapping grid alone: any cell of the widget state, the frozen ones   *)
(* included, holds any of MapCellValues                                    *)

InitMapping ==
    /\ InitSession
    /\ worksheets = <<>>
    /\ today = Today0
    /\ df_ref = RefSheet(MapRows, MapCols)
    /\ conc = NoConc

NextMapping ==
    \/ Login("doctor", VALID_USERS["doctor"].password)
    \/ Rerun(0)
    \/ \E r \in 1..MapRows, c \in 1..MapCols, v \in MapCellValues :
           EditMapping(r, c, v, 0)
    \/ \E f \in EarlyFaults : SubmitMapping(f)

SpecMapping == InitMapping /\ [][NextMapping]_vars

-----------------------------------------------------------------------------
(* The history view alone: the admin before a spreadsheet that holds any   *)
(* worksheets, made by this program or by hand                             *)

\* "2025-1-5" for 2025-01-05: what strftime never writes and strptime reads
Unpadded(d) ==
    SubSeq(Strftime(d), 1, 5)
        \o (IF d.m < 10 THEN <<DigitChar(d.m)>> ELSE SubSeq(Strftime(d), 6, 7))
        \o <<"-">>
        \o (IF d.d < 10 THEN <<DigitChar(d.d)>> ELSE SubSeq(Strftime(d), 9, 10))

TitlePool ==
    {DataSheetName(d) : d \in Days}
        \cup {MappingSheetName(Today0)}
        \cup {DataPrefix \o Unpadded(Today0)}
        \cup {DataPrefix \o Strftime([Today0 EXCEPT !.m = 2, !.d = 30])}
        \cup {DataPrefix \o <<"o", "l", "d">>}
        \cup {<<"S", "h", "e", "e", "t", "1">>}

TitleLists ==
    {t \in SeqsUpTo(TitlePool, MaxSheets) :
        \A i, j \in 1..Len(t) : i /= j => t[i] /= t[j]}

InitHistory ==
    /\ InitSession
    /\ \E t \in TitleLists :
           worksheets = [i \in 1..Len(t) |-> [title |-> t[i], rows |-> <<>>]]
    /\ today = Today0
    /\ df_ref = RefSheet(MapRows, 2)
    /\ conc = NoConc

NextHistory ==
    \/ Login("admin", VALID_USERS["admin"].password)
    \/ Logout
    \/ \E f \in 0..1 : Rerun(f)
    \/ \E k \in 1..MaxSheets, f \in 0..2 : SelectHistory(k, f)

SpecHistory == InitHistory /\ [][NextHistory]_vars

-----------------------------------------------------------------------------
(* Two sessions in new_entry_tab's Submit on the same day.  Each remote    *)
(* call is one step; conc[s] is session s's place in the handler:          *)
(*   pc    "idle", "add" (WorksheetNotFound was raised), "header" (the     *)
(*         worksheet was added) or "append" (get_today_sheet returned)     *)
(*   df    the grid of the session's editor                                *)
(*   ws    the handle get_today_sheet holds                                *)
(*   todo  the rows append_rows has still to append                        *)
(*   out   the message of the session's last Submit                        *)

Sessions == {1, 2}

ConcGrids == SeqsUpTo({RowText, RowDefault}, MaxConcRows) \ {<<>>}

ConcIdle(df, out) == [pc |-> "idle", df |-> df, ws |-> 0, todo |-> <<>>, out |-> out]

SharedOnly == <<session_state, entry_editor, mapping_editor, rerun, message,
                tabs, history, ops, today, df_ref>>

InitConc ==
    /\ InitSession
    /\ worksheets = <<>>
    /\ today = Today0
    /\ df_ref = NoRef
    /\ conc = [s \in Sessions |-> ConcIdle(<<RowText>>, "")]

\* the user of session s leaves the grid as g
ConcEdit(s, g) ==
    /\ conc[s].pc = "idle"
    /\ conc[s].df /= g
    /\ conc' = [conc EXCEPT ![s] = ConcIdle(g, "")]
    /\ UNCHANGED <<worksheets, SharedOnly>>

\* append_rows before its first call: the rows to append, or 0 returned
ConcEnter(c, ws) ==
    LET df_clean == dropna_all(c.df) IN
    IF df_clean = <<>> THEN ConcIdle(c.df, "warning")
    ELSE [c EXCEPT !.pc = "append", !.ws = ws,
                   !.todo = astype_str(fillna(df_clean))]

\* ConcLookup going on to the header row when the worksheet is found, too
ConcLookup_header_always(s) ==
    /\ conc[s].pc = "idle"
    /\ SheetHasRoom
    /\ \E r \in {sh_worksheet(Remote(worksheets, 0), DataSheetName(today))} :
          /\ worksheets' = r.sheets
          /\ conc' = [conc EXCEPT ![s] =
                        IF r.raised = "WorksheetNotFound"
                        THEN [@ EXCEPT !.pc = "add"]
                        ELSE [@ EXCEPT !.pc = "header", !.ws = r.ws]]
    /\ UNCHANGED SharedOnly

\* Submit is pressed: sh.worksheet(sheet_name)
ConcLookup(s) ==
    /\ conc[s].pc = "idle"
    /\ SheetHasRoom
    /\ \E r \in {sh_worksheet(Remote(worksheets, 0), DataSheetName(today))} :
          /\ worksheets' = r.sheets
          /\ conc' = [conc EXCEPT ![s] =
                        IF r.raised = "WorksheetNotFound"
                        THEN [@ EXCEPT !.pc = "add"]
                        ELSE ConcEnter(@, r.ws)]
    /\ UNCHANGED SharedOnly

\* sh.add_worksheet(title=sheet_name, ...): refused when the title is taken
ConcAdd(s) ==
    /\ conc[s].pc = "add"
    /\ \E r \in {sh_add_worksheet(Remote(worksheets, 0), DataSheetName(today))} :
          /\ worksheets' = r.sheets
          /\ conc' = [conc EXCEPT ![s] =
                        IF Raised(r) THEN ConcIdle(@.df, "error")
                        ELSE [@ EXCEPT !.pc = "header", !.ws = r.ws]]
    /\ UNCHANGED SharedOnly

\* ws.append_row(COLUMNS), then append_rows starts
ConcHeader(s) ==
    /\ conc[s].pc = "header"
    /\ \E r \in {ws_append_row(Remote(worksheets, 0), conc[s].ws, COLUMNS)} :
          /\ worksheets' = r.sheets
          /\ conc' = [conc EXCEPT ![s] = ConcEnter(@, @.ws)]
    /\ UNCHANGED SharedOnly

\* one ws.append_row(r) of append_rows; after the last one the grid is reset
ConcAppend(s) ==
    /\ conc[s].pc = "append"
    /\ \E r \in {ws_append_row_user_entered(Remote(worksheets, 0), conc[s].ws,
                                             Head(conc[s].todo))} :
          /\ worksheets' = r.sheets
          /\ conc' = [conc EXCEPT ![s] =
                        IF Tail(@.todo) = <<>> THEN ConcIdle(blank_df, "success")
                        ELSE [@ EXCEPT !.todo = Tail(@)]]
    /\ UNCHANGED SharedOnly

NextConc ==
    \/ \E s \in Sessions, g \in ConcGrids : ConcEdit(s, g)
    \/ \E s \in Sessions : ConcLookup(s)
    \/ \E s \in Sessions : ConcAdd(s)
    \/ \E s \in Sessions : ConcHeader(s)
    \/ \E s \in Sessions : ConcAppend(s)

SpecConc == InitConc /\ [][NextConc]_vars

-----------------------------------------------------------------------------
(* The two locators alone: a doctor who presses both Submit buttons on any *)
(* of Days, with a fault at any of the first calls                         *)

InitLocator ==
    /\ InitSession
    /\ worksheets = <<>>
    /\ today \in Days
    /\ df_ref = RefSheet(MapRows, MapCols)
    /\ conc = NoConc

NextLocator ==
    \/ Login("doctor", VALID_USERS["doctor"].password)
    \/ \E u \in Usernames : Login(u, "letmein")
    \/ Logout
    \/ Rerun(0)
    \/ \E g \in SmallGrids : EditEntry(g, 0)
    \/ \E f \in EarlyFaults, ts \in Timestamps : SubmitEntry(f, ts)
    \/ \E f \in EarlyFaults : SubmitMapping(f)

SpecLocator == InitLocator /\ [][NextLocator]_vars

-----------------------------------------------------------------------------
(* Claims about the entry grid (SpecEntry)                                 *)

\* a cell a reader calls blank: the empty string or a missing value
BlankCell(v) == v = "" \/ IsNa(v)

BlankRow(row) == \A c \in 1..Len(row) : BlankCell(row[c])

AllBlank(df) == \A r \in 1..Len(df) : BlankRow(df[r])

NonBlankRows(df) == SelectSeq(df, LAMBDA row : ~BlankRow(row))

\* the last run was a Submit of the entry grid that met no remote fault; the
\* editor still holds the grid that was submitted
EntrySubmitCompleted ==
    \E m \in message : m.about = "entry" /\ m.kind \in {"success", "warning"}

NoRemoteWrite == \A k \in 1..Len(ops) : ops[k].op \notin WriteOps

\* the rows the run appended, the header that follows add_worksheet left out
RECURSIVE DataAppends(_, _)
DataAppends(o, k) ==
    IF k > Len(o) THEN <<>>
    ELSE IF o[k].op = "append_row" /\ ~(k > 1 /\ o[k - 1].op = "add_worksheet")
         THEN o[k].values \o DataAppends(o, k + 1)
         ELSE DataAppends(o, k + 1)

TodaySheetRows ==
    LET i == TitleIndex(worksheets, DataSheetName(today)) IN
    IF i = 0 THEN <<>> ELSE worksheets[i].rows

\* C1: a Submit of a grid whose rows are all blank (every cell "" or missing)
\* reports "nothing to save" and makes no remote write: no append_row, no
\* add_worksheet, no header.
C1_BlankGridWritesNothing ==
    (EntrySubmitCompleted /\ AllBlank(entry_editor.df))
        => (Msg("warning", "entry", 0) \in message /\ NoRemoteWrite)

\* C2: a Submit that meets no remote fault passes to append_row exactly the k
\* non-blank rows of the grid, in their order, cell by cell as the grid holds
\* them (a missing cell as ""), and returns k.
C2_AppendsNonBlankRows ==
    EntrySubmitCompleted =>
        LET expected == fillna(NonBlankRows(entry_editor.df))
            k == Len(expected)
        IN  /\ DataAppends(ops, 1) = expected
            /\ Len(TodaySheetRows) >= k
            /\ IF k = 0 THEN Msg("warning", "entry", 0) \in message
               ELSE Msg("success", "entry", k) \in message

\* the step replaces editor_key by another key and asks for a rerun
KeyReplaced ==
    /\ rerun'
    /\ session_state'["editor_key"] /= session_state["editor_key"]

\* the entry grid is the blank default grid under the current editor_key
GridReset ==
    /\ ~rerun
    /\ entry_editor.df = blank_df
    /\ entry_editor.key = session_state["editor_key"]

EntrySaved == \E m \in message : m.about = "entry" /\ m.kind = "success"

\* C8 as stated: every Clear and every Submit that meets no remote fault
\* replaces editor_key, and the rerun that follows, before any user action,
\* leaves the blank default grid.
C8_CompletedSubmitResets ==
    [][ /\ \A ts \in Timestamps : ClearTable(ts) => KeyReplaced
        /\ \A f \in FaultPoints, ts \in Timestamps :
               (EntrySubmitCompleted' /\ SubmitEntry(f, ts)) => KeyReplaced
        /\ rerun => GridReset' ]_vars

\* C8 amended: every Clear and every Submit that saved at least one row
\* replaces editor_key, and the rerun that follows, before any user action,
\* leaves the blank default grid; a Submit that found no row to save shows
\* the warning and leaves the grid and editor_key as they are.
C8_SavingSubmitResets ==
    [][ /\ \A ts \in Timestamps : ClearTable(ts) => KeyReplaced
        /\ \A f \in FaultPoints, ts \in Timestamps :
               /\ (EntrySaved' /\ SubmitEntry(f, ts)) => KeyReplaced
               /\ (Msg("warning", "entry", 0) \in message' /\ SubmitEntry(f, ts))
                      => /\ ~rerun'
                         /\ session_state' = session_state
                         /\ entry_editor' = entry_editor
        /\ rerun => GridReset' ]_vars

\* after a Submit that saved rows the grid is blank under a timestamped key
C8_Witness ==
    /\ GridReset
    /\ session_state["editor_key"][1] = "editor_reset_"
    /\ TodaySheetRows /= <<>>

-----------------------------------------------------------------------------
(* Claims about the sheet locators (SpecLocator)                           *)

Lookup(title) == Call("worksheet", title, <<>>)

Creation(title) == Call("add_worksheet", title, <<>>)

HeaderWrite == Call("append_row", DataSheetName(today), <<COLUMNS>>)

TitleCount(sheets, title) ==
    Cardinality({i \in 1..Len(sheets) : sheets[i].title = title})

\* the name is the prefix followed by the ten characters YYYY-MM-DD of today
NameOfDay(name, prefix) ==
    LET n == Len(prefix)
        suffix == SubSeq(name, n + 1, Len(name))
    IN  /\ StartsWith(name, prefix)
        /\ Len(suffix) = 10
        /\ \A i \in 1..10 : IF i \in {5, 8} THEN suffix[i] = "-" ELSE IsDigit(suffix[i])
        /\ Strptime(suffix) = today

\* three calls of a locator, one after the other, on the sheets as they stand:
\* the first creates the worksheet (and whatever comes with it: created) only
\* when it is absent, the next ones look it up and return the same handle
ThreeCalls(a, b, c, name, created) ==
    LET found == TitleIndex(worksheets, name) /= 0 IN
    /\ ~Raised(a) /\ ~Raised(b) /\ ~Raised(c)
    /\ a.ws = TitleIndex(a.sheets, name) /\ a.ws /= 0
    /\ b.ws = a.ws /\ c.ws = a.ws
    /\ TitleCount(c.sheets, name) = 1
    /\ a.ops = IF found THEN <<Lookup(name)>> ELSE <<Lookup(name)>> \o created
    /\ a.sheets = IF found THEN worksheets
                  ELSE Append(worksheets,
                         [title |-> name,
                          rows |-> [k \in 1..(Len(created) - 1) |-> created[k + 1].values[1]]])
    /\ b.ops = Append(a.ops, Lookup(name))
    /\ c.ops = Append(b.ops, Lookup(name))
    /\ b.sheets = a.sheets /\ c.sheets = a.sheets

LocatorCalls ==
    LET a == get_today_sheet(Remote(worksheets, 0), today)
        b == get_today_sheet(a, today)
        m == get_mapping_sheet_for_today(b, today)
        c == get_today_sheet(m, today)
        ma == get_mapping_sheet_for_today(Remote(worksheets, 0), today)
        mb == get_mapping_sheet_for_today(ma, today)
        mc == get_mapping_sheet_for_today(mb, today)
    IN  /\ NameOfDay(DataSheetName(today), DataPrefix)
        /\ NameOfDay(MappingSheetName(today), MappingPrefix)
        /\ ThreeCalls(a, b, [c EXCEPT !.ops = SubSeq(c.ops, 1, Len(b.ops))
                                            \o SubSeq(c.ops, Len(m.ops) + 1, Len(c.ops)),
                                      !.sheets = SelectSeq(c.sheets,
                                          LAMBDA w : w.title /= MappingSheetName(today)
                                                     \/ TitleIndex(b.sheets, w.title) /= 0)],
                      DataSheetName(today),
                      <<Creation(DataSheetName(today)), HeaderWrite>>)
        /\ c.ws = a.ws
        /\ ThreeCalls(ma, mb, mc, MappingSheetName(today),
                      <<Creation(MappingSheetName(today))>>)

\* what the script runs of a session do to today's worksheets: an existing one
\* keeps its handle and is never created again, and the header row is written
\* only right after the creation
LocatorSteps ==
    /\ \A name \in {DataSheetName(today), MappingSheetName(today)} :
          /\ TitleCount(worksheets', name) <= 1
          /\ TitleIndex(worksheets, name) /= 0 =>
                /\ TitleIndex(worksheets', name) = TitleIndex(worksheets, name)
                /\ \A k \in 1..Len(ops') : ops'[k] /= Creation(name)
          /\ Cardinality({k \in 1..Len(ops') : ops'[k] = Creation(name)}) <= 1
    /\ \A k \in 1..Len(ops') :
          ops'[k] = HeaderWrite => (k > 1 /\ ops'[k - 1] = Creation(DataSheetName(today)))

\* C3: for a fixed day the locators' target name is the prefix followed by
\* YYYY-MM-DD; successive calls on that day return the same worksheet, the
\* worksheet is created at most once, every call after the first creates and
\* writes nothing, and the header row is written only on creation.
C3_LocatorIdempotent == [](LocatorCalls) /\ [][LocatorSteps]_vars

\* a Submit has found the worksheet that an earlier Submit created
C3_Witness ==
    /\ TitleIndex(worksheets, DataSheetName(today)) /= 0
    /\ Len(ops) >= 2
    /\ ops[1] = Lookup(DataSheetName(today))
    /\ ops[2].op = "append_row"
    /\ worksheets[TitleIndex(worksheets, DataSheetName(today))].rows[1] = COLUMNS

-----------------------------------------------------------------------------
(* Claims about the mapping grid (SpecMapping)                             *)

MappingSaved == Msg("success", "mapping", 0) \in message

\* the rows of today's mapping_ worksheet below its header row
WrittenGrid ==
    LET rows == worksheets[TitleIndex(worksheets, MappingSheetName(today))].rows
    IN  Tail(rows)

Frozen(r, c) == r = 1 \/ c <= 2

FrozenAsReference ==
    /\ Len(WrittenGrid) = NumRows(df_ref)
    /\ \A r \in 1..NumRows(df_ref) :
          /\ Len(WrittenGrid[r]) = NumCols(df_ref)
          /\ \A c \in 1..NumCols(df_ref) :
                Frozen(r, c) => WrittenGrid[r][c] = df_ref.values[r][c]

\* a missing cell reaches the sheet as the empty cell
AsEdited(v) == IF IsNa(v) THEN "" ELSE v

\* C4 as stated: after a mapping save that completes, the written grid has
\* the reference's values in row 0 and columns 0-1 and the edited grid's
\* values in every other cell.
C4_FrozenRestoredRestAsEdited ==
    MappingSaved =>
        /\ FrozenAsReference
        /\ \A r \in 1..NumRows(df_ref), c \in 1..NumCols(df_ref) :
              ~Frozen(r, c) => WrittenGrid[r][c] = AsEdited(mapping_editor.df[r][c])

\* C4 amended: after a mapping save that completes, whatever the edited grid
\* holds, the written grid has the reference's values in row 0 and columns
\* 0-1, and every other cell holds the edited grid's value, except that a
\* missing cell and the text "nan" are written as the empty string.
C4_FrozenRestoredRestCleaned ==
    MappingSaved =>
        /\ FrozenAsReference
        /\ \A r \in 1..NumRows(df_ref), c \in 1..NumCols(df_ref) :
              ~Frozen(r, c) =>
                  WrittenGrid[r][c] = IF mapping_editor.df[r][c] = "nan" THEN ""
                                      ELSE AsEdited(mapping_editor.df[r][c])
        /\ ops[Len(ops)] = Call("update", MappingSheetName(today),
                                <<df_ref.columns>> \o WrittenGrid)

\* a save of a grid whose frozen cell differs from the reference
C4_Witness ==
    /\ MappingSaved
    /\ \E r \in 1..NumRows(df_ref), c \in 1..NumCols(df_ref) :
          Frozen(r, c) /\ mapping_editor.df[r][c] /= df_ref.values[r][c]

-----------------------------------------------------------------------------
(* Claims about the history listing (SpecHistory)                          *)

Suffix(title) == SubSeq(title, Len(DataPrefix) + 1, Len(title))

\* the worksheet's title is data_ followed by a suffix that strptime accepts
DatedSheet(i) ==
    /\ StartsWith(worksheets[i].title, DataPrefix)
    /\ Strptime(Suffix(worksheets[i].title)).ok

ListedDate(k) == Strptime(history.date_sheets[k].date_str)

\* the listing holds the dated data_ worksheets, each once, under its suffix
ListsDatedSheets ==
    LET listed == history.date_sheets IN
    /\ \A k \in 1..Len(listed) :
          /\ listed[k].ws \in 1..Len(worksheets)
          /\ DatedSheet(listed[k].ws)
          /\ listed[k].date_str = Suffix(worksheets[listed[k].ws].title)
    /\ \A i \in 1..Len(worksheets) :
          DatedSheet(i) <=> \E k \in 1..Len(listed) : listed[k].ws = i
    /\ \A j, k \in 1..Len(listed) : j /= k => listed[j].ws /= listed[k].ws

\* C5 as stated: the listing is exactly the data_ worksheets whose suffix
\* parses as a date, each once, in strictly descending order of the date.
C5_StrictlyDescending ==
    history.shown =>
        /\ ListsDatedSheets
        /\ \A k \in 1..(Len(history.date_sheets) - 1) :
              DateLess(ListedDate(k + 1), ListedDate(k))

\* C5 amended: the listing is exactly the data_ worksheets whose suffix
\* strptime accepts for %Y-%m-%d (a month or day without its leading zero
\* included), each once, in descending order of the date; worksheets whose
\* suffixes give the same date keep the order the spreadsheet lists them in.
C5_DescendingStable ==
    history.shown =>
        /\ ListsDatedSheets
        /\ \A k \in 1..(Len(history.date_sheets) - 1) :
              /\ ~DateLess(ListedDate(k), ListedDate(k + 1))
              /\ ListedDate(k) = ListedDate(k + 1)
                    => history.date_sheets[k].ws < history.date_sheets[k + 1].ws

\* the listing is out of the spreadsheet's order and a worksheet is left out
C5_Witness ==
    /\ history.shown
    /\ Len(history.date_sheets) >= 2
    /\ history.date_sheets[1].ws > history.date_sheets[2].ws
    /\ \E i \in 1..Len(worksheets) : ~DatedSheet(i)

-----------------------------------------------------------------------------
(* Claims about the session (Spec)                                         *)

ValidLogin(u, p) == u \in DOMAIN VALID_USERS /\ VALID_USERS[u].password = p

Role == Get(session_state, "user_role", None)

\* C6: a login attempt logs the session in exactly when the username is in
\* the credential table with that password; the role is then the entry's
\* role; any other attempt leaves logged_in false and the role unset and
\* shows an error; nothing but a matching attempt logs a session in.
C6_LoginIffCredentialsMatch ==
    [][ /\ \A u \in Usernames, p \in Passwords :
              Login(u, p) =>
                  IF ValidLogin(u, p)
                  THEN /\ session_state'["logged_in"] = TRUE
                       /\ session_state'["user_role"] = VALID_USERS[u].role
                       /\ Msg("error", "login", 0) \notin message'
                  ELSE /\ session_state'["logged_in"] = FALSE
                       /\ session_state'["user_role"] = None
                       /\ Msg("error", "login", 0) \in message'
                       /\ ~rerun'
        /\ (~LoggedIn /\ LoggedIn') =>
              \E u \in Usernames, p \in Passwords : ValidLogin(u, p) /\ Login(u, p)
      ]_vars

\* the admin has just logged in with the admin's password
C6_Witness ==
    /\ LoggedIn
    /\ Role = "admin"
    /\ rerun
    /\ entry_editor = NoEditor

\* the fault of this run falls on a remote call of the Submit handler
EntryFaulted(f) ==
    LET r1 == get_today_sheet(Remote(worksheets, f), today) IN
    IF Raised(r1) THEN TRUE ELSE Raised(append_rows(r1, r1.ws, entry_editor.df))

MappingFaulted(f) ==
    LET r1 == get_mapping_sheet_for_today(Remote(worksheets, f), today) IN
    IF Raised(r1) THEN TRUE
    ELSE LET r2 == ws_clear(r1, r1.ws) IN
         IF Raised(r2) THEN TRUE ELSE Raised(ws_update(r2, r2.ws, <<>>))

\* the handler reported the fault and the session is as it was
ErrorAndSessionKept(about) ==
    /\ Msg("error", about, 0) \in message'
    /\ \A m \in message' : m.kind \notin {"exception", "success", "warning"}
    /\ session_state' = session_state
    /\ entry_editor' = entry_editor
    /\ mapping_editor' = mapping_editor
    /\ ~rerun'

\* C7: a remote call that fails during an entry Submit or a mapping Submit
\* (lookup, creation, header or row append, clear, update) is caught and
\* reported as an error by that handler; logged_in, user_role, editor_key and
\* mapping_clear_after_submit stay as they were, both grids keep the user's
\* input and no rerun is asked for.
C7_FaultLeavesSession ==
    [][ \A f \in EarlyFaults :
           /\ \A ts \in Timestamps :
                 (EntryFaulted(f) /\ SubmitEntry(f, ts)) => ErrorAndSessionKept("entry")
           /\ (MappingFaulted(f) /\ SubmitMapping(f)) => ErrorAndSessionKept("mapping")
      ]_vars

\* a Submit of a grid with text failed after today's worksheet was created
C7_Witness ==
    /\ Msg("error", "entry", 0) \in message
    /\ entry_editor.df = <<RowText>>
    /\ TitleIndex(worksheets, DataSheetName(today)) /= 0
    /\ ~rerun

HistoryReads == {"worksheets", "get_all_values"}

\* C9: the history view (its tab, its listing, its reads) appears only in a
\* session logged in as admin; every logged-in session whose page is drawn
\* has the entry tab with its grid; a logged-out session makes no remote call.
C9_RoleGating ==
    /\ (history.shown \/ "Previous Entries" \in tabs
            \/ \E k \in 1..Len(ops) : ops[k].op \in HistoryReads)
         => (LoggedIn /\ Role = "admin")
    /\ (LoggedIn /\ ~rerun) => ("New Entry" \in tabs /\ entry_editor /= NoEditor)
    /\ ~LoggedIn => (ops = <<>> /\ tabs = {} /\ entry_editor = NoEditor)

\* the admin reads the rows a Submit has saved
C9_Witness ==
    /\ Role = "admin"
    /\ history.shown
    /\ Len(history.rows) > 1
    /\ tabs = {"New Entry", "Previous Entries"}

-----------------------------------------------------------------------------
(* Claims about two sessions (SpecConc)                                    *)

HeaderCount(rows) == Cardinality({k \in 1..Len(rows) : rows[k] = COLUMNS})

====
